---- MODULE Spec2Model ----
(***************************************************************************)
(* A model of the ECOFF dumper of src/src/main.rs: the byte reader, the    *)
(* four header decoders, the section materializer, the string-table        *)
(* extraction and the orchestration of main().                             *)
(***************************************************************************)
EXTENDS Integers, Sequences, FiniteSets, TLC

VARIABLES
    file,               \* the bytes of the opened input, a sequence over 0..255
    pos,                \* the reader's stream position (0-based)
    pc,                 \* the stage main() is in
    file_header,        \* <<>> or <<record>>: main's `file_header`
    optional_header,    \* <<>> or <<record>>: main's `optional_header`
    section_header,     \* <<>> or <<record>>: the loop's `section_header` whose data is not read yet
    sections,           \* the (header, data) pairs the loop has completed, in order
    symbol_header,      \* <<>> or <<record>>: main's `symbol_header`
    local_strings,      \* <<>> or <<bytes>>: `data` of the local string block
    external_strings,   \* <<>> or <<bytes>>: `data` of the external string block
    out,                \* the tags of the println! calls executed so far, in order
    io,                 \* the reads and seeks performed so far, in order
    ret,                \* "running", "Ok" or "Err": what main() returned
    res                 \* the result of the last decoder applied alone (SpecDec)

vars == << file, pos, pc, file_header, optional_header, section_header, sections,
           symbol_header, local_strings, external_strings, out, io, ret, res >>

(***************************************************************************)
(* Bounds of the model.                                                    *)
(***************************************************************************)
MaxSections == 2        \* f_nscns ranges over 0..MaxSections
MaxStart == 2           \* SpecDec starts a decoder at positions 0..MaxStart

(***************************************************************************)
(* Primitive reader: std::io::Read / Seek on BufReader<File>, byteorder.   *)
(***************************************************************************)

\* Read::read_exact: n bytes from position p, or UnexpectedEof; a failed
\* read has consumed whatever was left of the stream.  (p and n are u64 and
\* usize in the code; the test is written so that no sum leaves the range
\* of the integers of the model.)
read_exact(f, p, n) ==
    IF n = 0 \/ (p <= Len(f) /\ n <= Len(f) - p)
    THEN [ok |-> TRUE, pos |-> p + n, data |-> SubSeq(f, p + 1, p + n)]
    ELSE [ok |-> FALSE, pos |-> IF p < Len(f) THEN Len(f) ELSE p, data |-> <<>>]

\* The seek is left out: the position stays where the last read left it.
seek_omitted(off) == pos

\* Seek::seek(SeekFrom::Start(off)): the position becomes off, whatever the
\* length of the file is.
seek(off) == off

RECURSIVE LittleEndian(_)
LittleEndian(bytes) ==
    IF bytes = <<>> THEN 0
    ELSE Head(bytes) + 256 * LittleEndian(Tail(bytes))

\* byteorder::BigEndian: the first byte is the most significant one.
RECURSIVE BigEndian(_)
BigEndian(bytes) ==
    IF bytes = <<>> THEN 0
    ELSE BigEndian(SubSeq(bytes, 1, Len(bytes) - 1)) * 256 + bytes[Len(bytes)]

\* ReadBytesExt::read_u16::<BigEndian> / read_u32::<BigEndian>: w is 2 or 4.
read_uint(f, p, w) ==
    LET r == read_exact(f, p, w)
    IN  [ok |-> r.ok, pos |-> r.pos, val |-> IF r.ok THEN BigEndian(r.data) ELSE 0]

\* A struct literal whose fields are `reader.read_uN::<BigEndian>()?` in
\* order: the fields are read one after the other and the first failing read
\* returns the error.
RECURSIVE ReadFields(_, _, _)
ReadFields(f, p, widths) ==
    IF widths = <<>> THEN [ok |-> TRUE, pos |-> p, vals |-> <<>>]
    ELSE LET r == read_uint(f, p, Head(widths))
         IN  IF ~r.ok THEN [ok |-> FALSE, pos |-> r.pos, vals |-> <<>>]
             ELSE LET rest == ReadFields(f, r.pos, Tail(widths))
                  IN  [ok |-> rest.ok, pos |-> rest.pos,
                       vals |-> IF rest.ok THEN <<r.val>> \o rest.vals ELSE <<>>]

(***************************************************************************)
(* Header decoders.  Each returns [ok, pos, rec]: rec is <<record>> on     *)
(* success and <<>> on an error.                                           *)
(***************************************************************************)

\* The field types of EcoffFileHeader, in bytes (u16 = 2, u32 = 4).
FileHeaderFields == <<2, 2, 4, 4, 4, 2, 2>>

read_file_header(f, p) ==
    LET r == ReadFields(f, p, FileHeaderFields)
        v == r.vals
    IN  [ok |-> r.ok, pos |-> r.pos,
         rec |-> IF r.ok
                 THEN << [f_magic |-> v[1], f_nscns |-> v[2], f_timdat |-> v[3],
                          f_symptr |-> v[4], f_nsyms |-> v[5], f_opthdr |-> v[6],
                          f_flags |-> v[7]] >>
                 ELSE <<>>]

\* The field types of EcoffOptionalHeader; cprmask is [u32; 4].
OptionalHeaderFields == <<2, 2, 4, 4, 4, 4, 4, 4, 4, 4, 4, 4, 4, 4, 4>>

read_optional_header(f, p) ==
    LET r == ReadFields(f, p, OptionalHeaderFields)
        v == r.vals
    IN  [ok |-> r.ok, pos |-> r.pos,
         rec |-> IF r.ok
                 THEN << [magic |-> v[1], vstamp |-> v[2], tsize |-> v[3],
                          dsize |-> v[4], bsize |-> v[5], entry |-> v[6],
                          text_start |-> v[7], data_start |-> v[8],
                          bss_start |-> v[9], gprmask |-> v[10],
                          cprmask |-> <<v[11], v[12], v[13], v[14]>>,
                          gp_value |-> v[15]] >>
                 ELSE <<>>]

\* The length of EcoffSectionHeader.s_name, [u8; 8].
SectionNameLen == 8

\* The field types of EcoffSectionHeader after s_name.
SectionHeaderFields == <<4, 4, 4, 4, 4, 4, 2, 2, 4>>

read_section_header(f, p) ==
    LET nm == read_exact(f, p, SectionNameLen)
        r == ReadFields(f, nm.pos, SectionHeaderFields)
        v == r.vals
    IN  IF ~nm.ok THEN [ok |-> FALSE, pos |-> nm.pos, rec |-> <<>>]
        ELSE [ok |-> r.ok, pos |-> r.pos,
              rec |-> IF r.ok
                      THEN << [s_name |-> nm.data, s_paddr |-> v[1], s_vaddr |-> v[2],
                               s_size |-> v[3], s_scnptr |-> v[4], s_relptr |-> v[5],
                               s_lnnoptr |-> v[6], s_nreloc |-> v[7], s_nlnno |-> v[8],
                               s_flags |-> v[9]] >>
                      ELSE <<>>]

\* The field types of SymbolHeader.
SymbolHeaderFields ==
    <<2, 2, 4, 4, 4, 4, 4, 4, 4, 4, 4, 4, 4, 4, 4, 4, 4, 4, 4, 4, 4, 4, 4, 4, 4>>

read_symbol_header(f, p) ==
    LET r == ReadFields(f, p, SymbolHeaderFields)
        v == r.vals
    IN  [ok |-> r.ok, pos |-> r.pos,
         rec |-> IF r.ok
                 THEN << [magic |-> v[1], vstamp |-> v[2], iline_max |-> v[3],
                          cb_line |-> v[4], cb_line_offset |-> v[5], idn_max |-> v[6],
                          cb_dn_offset |-> v[7], ipd_max |-> v[8], cb_pd_offset |-> v[9],
                          isym_max |-> v[10], cb_sym_offset |-> v[11],
                          iopt_max |-> v[12], cb_opt_offset |-> v[13],
                          iaux_max |-> v[14], cb_aux_offset |-> v[15],
                          iss_max |-> v[16], cb_ss_offset |-> v[17],
                          iss_ext_max |-> v[18], cb_ss_ext_offset |-> v[19],
                          ifd_max |-> v[20], cb_fd_offset |-> v[21], crfd |-> v[22],
                          cb_rfd_offset |-> v[23], iext_max |-> v[24],
                          cb_ext_offset |-> v[25]] >>
                 ELSE <<>>]

(***************************************************************************)
(* Section materializer and string-block extraction.                       *)
(***************************************************************************)

\* Read::read instead of read_exact: the bytes that are there are returned.
read_section_data_short(f, header) ==
    LET p == seek(header.s_scnptr)
        r == read_exact(f, p, header.s_size)
    IN  IF r.ok THEN r
        ELSE [ok |-> TRUE, pos |-> r.pos,
              data |-> IF p < Len(f) THEN SubSeq(f, p + 1, Len(f)) ELSE <<>>]

\* read_section_data: vec![0; s_size], seek to s_scnptr, read_exact.
read_section_data(f, header) ==
    read_exact(f, seek(header.s_scnptr), header.s_size)

\* The offset is validated against the length of the file before the read.
read_strings_checked(f, offset, size) ==
    IF offset > Len(f) THEN [ok |-> FALSE, pos |-> seek(offset), data |-> <<>>]
    ELSE read_exact(f, seek(offset), size)

\* The `{ ... }` blocks of main: vec![0; size], seek to offset, read_exact.
read_strings(f, offset, size) ==
    read_exact(f, seek(offset), size)

(***************************************************************************)
(* The inputs: the contents of the file main() opens.  A file is laid out  *)
(* from a few parameters: the file header, f_opthdr bytes of optional      *)
(* header, n section headers and their data, the symbolic header and the   *)
(* two string blocks; then it may be truncated.  Every byte of a file of   *)
(* the model is below 128, so that every u32 read from it is below 2^31.   *)
(***************************************************************************)
FarOffset == 4096       \* an offset past the end of every file of the model

Layouts == {"contiguous", "interleaved"}
OptSizes == {0, 56, 8}
SecChoices == [size : {0, 3}, far : BOOLEAN]
StrChoice(len, far) == [len |-> len, far |-> far]
\* The (local, external) string blocks of a file.
StrPairs ==
    { << StrChoice(0, FALSE), StrChoice(0, FALSE) >>,
      << StrChoice(6, FALSE), StrChoice(6, FALSE) >>,
      << StrChoice(0, TRUE), StrChoice(0, TRUE) >>,
      << StrChoice(0, TRUE), StrChoice(6, FALSE) >>,
      << StrChoice(6, FALSE), StrChoice(0, TRUE) >>,
      << StrChoice(6, TRUE), StrChoice(0, FALSE) >>,
      << StrChoice(6, FALSE), StrChoice(6, TRUE) >> }
Truncs == {"full", "tail", "half", "head"}

RECURSIVE Width(_)
Width(widths) == IF widths = <<>> THEN 0 ELSE Head(widths) + Width(Tail(widths))

RECURSIVE Pow256(_)
Pow256(k) == IF k = 0 THEN 1 ELSE 256 * Pow256(k - 1)

Bytes(v, w) == [i \in 1..w |-> (v \div Pow256(w - i)) % 256]

RECURSIVE Encode(_, _)
Encode(vals, widths) ==
    IF widths = <<>> THEN <<>>
    ELSE Bytes(Head(vals), Head(widths)) \o Encode(Tail(vals), Tail(widths))

RECURSIVE SumSizes(_, _)
SumSizes(sc, k) == IF k = 0 THEN 0 ELSE sc[k].size + SumSizes(sc, k - 1)

SectionHeaderWidth == SectionNameLen + Width(SectionHeaderFields)

\* Where the data of section i (1-based) lies in the file.
DataOffset(lay, base, n, sc, i) ==
    IF lay = "contiguous"
    THEN base + SectionHeaderWidth * n + SumSizes(sc, i - 1)
    ELSE base + SectionHeaderWidth * i + SumSizes(sc, i - 1)

SectionHeaderBytes(lay, base, n, sc, i) ==
    << 46, 115, 48 + i, 0, 0, 0, 0, 0 >>
    \o Encode(<< 0, 0, sc[i].size,
                 IF sc[i].far THEN FarOffset ELSE DataOffset(lay, base, n, sc, i),
                 0, 0, 0, 0, 32 >>, SectionHeaderFields)

SectionDataBytes(sc, i) == [k \in 1..sc[i].size |-> 16 * i + k]

RECURSIVE SectionBytes(_, _, _, _, _, _)
SectionBytes(lay, base, n, sc, k, what) ==
    IF k = 0 THEN <<>>
    ELSE SectionBytes(lay, base, n, sc, k - 1, what)
         \o (IF what # "data" THEN SectionHeaderBytes(lay, base, n, sc, k) ELSE <<>>)
         \o (IF what # "headers" THEN SectionDataBytes(sc, k) ELSE <<>>)

LocalStringBytes == << 97, 98, 0, 99, 100, 0 >>
ExternalStringBytes == << 109, 97, 105, 110, 0, 120 >>

Truncate(f, t) ==
    CASE t = "full" -> f
      [] t = "tail" -> SubSeq(f, 1, Len(f) - 1)
      [] t = "half" -> SubSeq(f, 1, Len(f) \div 2)
      [] t = "head" -> SubSeq(f, 1, 10)

MkFile(p) ==
    LET n == p.n
        sc == p.sc
        ls == p.str[1]
        es == p.str[2]
        base == Width(FileHeaderFields) + p.opthdr
        symoff == base + SectionHeaderWidth * n + SumSizes(sc, n)
        lsoff == symoff + Width(SymbolHeaderFields)
        esoff == lsoff + ls.len
        fh == Encode(<< 352, n, 0, IF p.symfar THEN FarOffset ELSE symoff, 0, p.opthdr, 7 >>,
                     FileHeaderFields)
        oh == [k \in 1..p.opthdr |-> 64 + k]
        sh == IF p.lay = "contiguous"
              THEN SectionBytes(p.lay, base, n, sc, n, "headers")
                   \o SectionBytes(p.lay, base, n, sc, n, "data")
              ELSE SectionBytes(p.lay, base, n, sc, n, "both")
        yh == Encode(<< 28681, 1, 0, 0, 0, 0, 0, 0, 0, 0, 0, 0, 0, 0, 0,
                        ls.len, IF ls.far THEN FarOffset ELSE lsoff,
                        es.len, IF es.far THEN FarOffset + 1 ELSE esoff,
                        0, 0, 0, 0, 0, 0 >>, SymbolHeaderFields)
    IN  Truncate(fh \o oh \o sh \o yh
                 \o SubSeq(LocalStringBytes, 1, ls.len)
                 \o SubSeq(ExternalStringBytes, 1, es.len), p.t)

\* The sections of a file alternate between two choices of (size, far).
SectionChoices(n) ==
    { [i \in 1..n |-> IF i % 2 = 1 THEN c1 ELSE c2] : c1 \in SecChoices, c2 \in SecChoices }

Params ==
    UNION { [n : {n}, opthdr : OptSizes,
             lay : IF n < 2 THEN {"contiguous"} ELSE Layouts,
             sc : SectionChoices(n), symfar : {FALSE}, str : StrPairs, t : Truncs]
            \cup
            [n : {n}, opthdr : OptSizes,
             lay : IF n < 2 THEN {"contiguous"} ELSE Layouts,
             sc : SectionChoices(n), symfar : {TRUE},
             str : { << StrChoice(0, FALSE), StrChoice(0, FALSE) >> }, t : Truncs]
          : n \in 0..MaxSections }

(***************************************************************************)
(* main(): one action per stage; the `?` after a read or seek returns the  *)
(* error from main.                                                        *)
(***************************************************************************)
Successor(stage) ==
    CASE stage = "Start" -> "OptionalHeader"
      [] stage = "OptionalHeader" -> "Sections"
      [] stage = "Sections" -> "SymbolTable"
      [] stage = "SymbolTable" -> "LocalStrings"
      [] stage = "LocalStrings" -> "ExternalStrings"
      [] stage = "ExternalStrings" -> "Done"

\* The error of the last read is dropped instead of returned.
TryIgnoringLast(ok, next) == IF ok \/ next = "Done" THEN next ELSE "Error"

\* `expr?`: on Ok the run goes on to `next`, on Err main returns the error.
Try(ok, next) == IF ok THEN next ELSE "Error"

Returned(ok, next) ==
    IF ~ok THEN "Err" ELSE IF next = "Done" THEN "Ok" ELSE "running"

\* The record is printed whether or not the read returned Ok.
EmitAlways(o, ok, tags) == o \o tags

\* println!(...) placed after a `?`: it runs when the read returned Ok.
Emit(o, ok, tags) == IF ok THEN o \o tags ELSE o

\* The optional header is read whatever f_opthdr is.
HasOptionalHeaderAlways(h) == h.f_opthdr >= 0

\* main.rs 178: `if file_header.f_opthdr > 0`
HasOptionalHeader(h) == h.f_opthdr > 0

\* The range is inclusive: 0..=f_nscns.
MoreSectionsInclusive(done, h) == done <= h.f_nscns

\* main.rs 184: `for _ in 0..file_header.f_nscns`, after `done` iterations
MoreSections(done, h) == done < h.f_nscns

Event(stage, op, at, end, ok) ==
    [stage |-> stage, op |-> op, at |-> at, end |-> end, ok |-> ok]

Init ==
    /\ \E p \in Params : file = MkFile(p)
    /\ pos = 0
    /\ pc = "Start"
    /\ file_header = <<>>
    /\ optional_header = <<>>
    /\ section_header = <<>>
    /\ sections = <<>>
    /\ symbol_header = <<>>
    /\ local_strings = <<>>
    /\ external_strings = <<>>
    /\ out = <<>>
    /\ io = <<>>
    /\ ret = "running"
    /\ res = <<>>

\* main.rs 174-175
ReadFileHeader ==
    /\ pc = "Start"
    /\ LET r == read_file_header(file, pos)
       IN  /\ pos' = r.pos
           /\ file_header' = r.rec
           /\ io' = Append(io, Event("Start", "read_file_header", pos, r.pos, r.ok))
           /\ out' = Emit(out, r.ok, << "ECOFF File Header" >>)
           /\ pc' = Try(r.ok, Successor("Start"))
           /\ ret' = Returned(r.ok, Successor("Start"))
    /\ UNCHANGED << file, optional_header, section_header, sections, symbol_header,
                    local_strings, external_strings, res >>

\* main.rs 178-181, f_opthdr > 0
ReadOptionalHeader ==
    /\ pc = "OptionalHeader"
    /\ HasOptionalHeader(file_header[1])
    /\ LET r == read_optional_header(file, pos)
       IN  /\ pos' = r.pos
           /\ optional_header' = r.rec
           /\ io' = Append(io, Event("OptionalHeader", "read_optional_header", pos, r.pos, r.ok))
           /\ out' = Emit(out, r.ok, << "ECOFF Optional Header" >>)
           /\ pc' = Try(r.ok, Successor("OptionalHeader"))
           /\ ret' = Returned(r.ok, Successor("OptionalHeader"))
    /\ UNCHANGED << file, file_header, section_header, sections, symbol_header,
                    local_strings, external_strings, res >>

\* main.rs 178, f_opthdr = 0
SkipOptionalHeader ==
    /\ pc = "OptionalHeader"
    /\ ~HasOptionalHeader(file_header[1])
    /\ pc' = Successor("OptionalHeader")
    /\ UNCHANGED << file, pos, file_header, optional_header, section_header, sections,
                    symbol_header, local_strings, external_strings, out, io, ret, res >>

\* main.rs 184-188: the next iteration of the loop reads a section header
\* at the current position.
ReadSectionHeader ==
    /\ pc = "Sections"
    /\ section_header = <<>>
    /\ MoreSections(Len(sections), file_header[1])
    /\ LET r == read_section_header(file, pos)
       IN  /\ pos' = r.pos
           /\ section_header' = r.rec
           /\ io' = Append(io, Event("Sections", "read_section_header", pos, r.pos, r.ok))
           /\ out' = Emit(out, r.ok, << "s_name", "ECOFF Section Header" >>)
           /\ pc' = Try(r.ok, "Sections")
           /\ ret' = Returned(r.ok, "Sections")
    /\ UNCHANGED << file, file_header, optional_header, sections, symbol_header,
                    local_strings, external_strings, res >>

\* main.rs 189-190
ReadSectionData ==
    /\ pc = "Sections"
    /\ section_header # <<>>
    /\ LET h == section_header[1]
           r == read_section_data(file, h)
       IN  /\ pos' = r.pos
           /\ sections' = IF r.ok THEN Append(sections, [header |-> h, data |-> r.data])
                          ELSE sections
           /\ io' = io \o << Event("Sections", "seek", pos, seek(h.s_scnptr), TRUE),
                             Event("Sections", "read_section_data", seek(h.s_scnptr),
                                   r.pos, r.ok) >>
           /\ out' = Emit(out, r.ok, << "section data" >>)
           /\ pc' = Try(r.ok, "Sections")
           /\ ret' = Returned(r.ok, "Sections")
    /\ section_header' = <<>>
    /\ UNCHANGED << file, file_header, optional_header, symbol_header,
                    local_strings, external_strings, res >>

\* main.rs 184: the range 0..f_nscns is exhausted.
EndSections ==
    /\ pc = "Sections"
    /\ section_header = <<>>
    /\ ~MoreSections(Len(sections), file_header[1])
    /\ pc' = Successor("Sections")
    /\ UNCHANGED << file, pos, file_header, optional_header, section_header, sections,
                    symbol_header, local_strings, external_strings, out, io, ret, res >>

\* main.rs 193-196
ReadSymbolHeader ==
    /\ pc = "SymbolTable"
    /\ LET at == seek(file_header[1].f_symptr)
           r == read_symbol_header(file, at)
       IN  /\ pos' = r.pos
           /\ symbol_header' = r.rec
           /\ io' = io \o << Event("SymbolTable", "seek", pos, at, TRUE),
                             Event("SymbolTable", "read_symbol_header", at, r.pos, r.ok) >>
           /\ out' = Emit(out, r.ok, << "SymbolHeader" >>)
           /\ pc' = Try(r.ok, Successor("SymbolTable"))
           /\ ret' = Returned(r.ok, Successor("SymbolTable"))
    /\ UNCHANGED << file, file_header, optional_header, section_header, sections,
                    local_strings, external_strings, res >>

\* main.rs 198-211
ReadLocalStrings ==
    /\ pc = "LocalStrings"
    /\ LET y == symbol_header[1]
           r == read_strings(file, y.cb_ss_offset, y.iss_max)
       IN  /\ pos' = r.pos
           /\ local_strings' = IF r.ok THEN << r.data >> ELSE <<>>
           /\ io' = io \o << Event("LocalStrings", "seek", pos, seek(y.cb_ss_offset), TRUE),
                             Event("LocalStrings", "read_strings", seek(y.cb_ss_offset),
                                   r.pos, r.ok) >>
           /\ out' = Emit(out, r.ok, << "local strings" >>)
           /\ pc' = Try(r.ok, Successor("LocalStrings"))
           /\ ret' = Returned(r.ok, Successor("LocalStrings"))
    /\ UNCHANGED << file, file_header, optional_header, section_header, sections,
                    symbol_header, external_strings, res >>

\* main.rs 213-224
ReadExternalStrings ==
    /\ pc = "ExternalStrings"
    /\ LET y == symbol_header[1]
           r == read_strings(file, y.cb_ss_ext_offset, y.iss_ext_max)
       IN  /\ pos' = r.pos
           /\ external_strings' = IF r.ok THEN << r.data >> ELSE <<>>
           /\ io' = io \o << Event("ExternalStrings", "seek", pos,
                                   seek(y.cb_ss_ext_offset), TRUE),
                             Event("ExternalStrings", "read_strings",
                                   seek(y.cb_ss_ext_offset), r.pos, r.ok) >>
           /\ out' = Emit(out, r.ok, << "external strings" >>)
           /\ pc' = Try(r.ok, Successor("ExternalStrings"))
           /\ ret' = Returned(r.ok, Successor("ExternalStrings"))
    /\ UNCHANGED << file, file_header, optional_header, section_header, sections,
                    symbol_header, local_strings, res >>

Next ==
    \/ ReadFileHeader
    \/ ReadOptionalHeader
    \/ SkipOptionalHeader
    \/ ReadSectionHeader
    \/ ReadSectionData
    \/ EndSections
    \/ ReadSymbolHeader
    \/ ReadLocalStrings
    \/ ReadExternalStrings

Spec == Init /\ [][Next]_vars

(***************************************************************************)
(* The header decoders applied alone: a decoder is started at a position   *)
(* of a file and its result is kept in res.                                *)
(***************************************************************************)
DecLengths == {0, 1, 10, 19, 20, 21, 39, 40, 41, 55, 56, 57, 95, 96, 97, 99}

PatternFile(len, a, b) == [k \in 1..len |-> (a * k + b) % 128]

InitDec ==
    /\ \E len \in DecLengths, a \in {1, 3, 7}, b \in {0, 5} : file = PatternFile(len, a, b)
    /\ pos \in 0..MaxStart
    /\ pc = "Decode"
    /\ file_header = <<>>
    /\ optional_header = <<>>
    /\ section_header = <<>>
    /\ sections = <<>>
    /\ symbol_header = <<>>
    /\ local_strings = <<>>
    /\ external_strings = <<>>
    /\ out = <<>>
    /\ io = <<>>
    /\ ret = "running"
    /\ res = <<>>

Decoded(name, r) ==
    /\ pc = "Decode"
    /\ pc' = "Decoded"
    /\ res' = << [decoder |-> name, at |-> pos, ok |-> r.ok, rec |-> r.rec] >>
    /\ pos' = r.pos
    /\ UNCHANGED << file, file_header, optional_header, section_header, sections,
                    symbol_header, local_strings, external_strings, out, io, ret >>

DecodeFileHeader == Decoded("read_file_header", read_file_header(file, pos))

DecodeOptionalHeader == Decoded("read_optional_header", read_optional_header(file, pos))

DecodeSectionHeader == Decoded("read_section_header", read_section_header(file, pos))

DecodeSymbolHeader == Decoded("read_symbol_header", read_symbol_header(file, pos))

NextDec ==
    \/ DecodeFileHeader
    \/ DecodeOptionalHeader
    \/ DecodeSectionHeader
    \/ DecodeSymbolHeader

SpecDec == InitDec /\ [][NextDec]_vars

(***************************************************************************)
(* Properties.                                                             *)
(***************************************************************************)

\* The unsigned value of the w bytes of f that follow offset o, the first
\* byte the most significant.
U16At(f, o) == f[o + 1] * 256 + f[o + 2]
U32At(f, o) == ((f[o + 1] * 256 + f[o + 2]) * 256 + f[o + 3]) * 256 + f[o + 4]
ValueAt(f, o, w) == IF w = 2 THEN U16At(f, o) ELSE U32At(f, o)

\* The fields of each record as <<name, offset in the record, width>>.
FileHeaderLayout ==
    << <<"f_magic", 0, 2>>, <<"f_nscns", 2, 2>>, <<"f_timdat", 4, 4>>,
       <<"f_symptr", 8, 4>>, <<"f_nsyms", 12, 4>>, <<"f_opthdr", 16, 2>>,
       <<"f_flags", 18, 2>> >>
OptionalHeaderLayout ==
    << <<"magic", 0, 2>>, <<"vstamp", 2, 2>>, <<"tsize", 4, 4>>, <<"dsize", 8, 4>>,
       <<"bsize", 12, 4>>, <<"entry", 16, 4>>, <<"text_start", 20, 4>>,
       <<"data_start", 24, 4>>, <<"bss_start", 28, 4>>, <<"gprmask", 32, 4>>,
       <<"gp_value", 52, 4>> >>
SectionHeaderLayout ==
    << <<"s_paddr", 8, 4>>, <<"s_vaddr", 12, 4>>, <<"s_size", 16, 4>>,
       <<"s_scnptr", 20, 4>>, <<"s_relptr", 24, 4>>, <<"s_lnnoptr", 28, 4>>,
       <<"s_nreloc", 32, 2>>, <<"s_nlnno", 34, 2>>, <<"s_flags", 36, 4>> >>
SymbolHeaderLayout ==
    << <<"magic", 0, 2>>, <<"vstamp", 2, 2>>, <<"iline_max", 4, 4>>,
       <<"cb_line", 8, 4>>, <<"cb_line_offset", 12, 4>>, <<"idn_max", 16, 4>>,
       <<"cb_dn_offset", 20, 4>>, <<"ipd_max", 24, 4>>, <<"cb_pd_offset", 28, 4>>,
       <<"isym_max", 32, 4>>, <<"cb_sym_offset", 36, 4>>, <<"iopt_max", 40, 4>>,
       <<"cb_opt_offset", 44, 4>>, <<"iaux_max", 48, 4>>, <<"cb_aux_offset", 52, 4>>,
       <<"iss_max", 56, 4>>, <<"cb_ss_offset", 60, 4>>, <<"iss_ext_max", 64, 4>>,
       <<"cb_ss_ext_offset", 68, 4>>, <<"ifd_max", 72, 4>>, <<"cb_fd_offset", 76, 4>>,
       <<"crfd", 80, 4>>, <<"cb_rfd_offset", 84, 4>>, <<"iext_max", 88, 4>>,
       <<"cb_ext_offset", 92, 4>> >>

\* Every field a layout names has, in rec, the value of its bytes at p.
MatchesLayout(rec, layout, f, p) ==
    /\ { layout[k][1] : k \in DOMAIN layout } \subseteq DOMAIN rec
    /\ \A k \in DOMAIN layout :
          rec[layout[k][1]] = ValueAt(f, p + layout[k][2], layout[k][3])

\* The fields that are arrays: cprmask ([u32; 4]) and s_name ([u8; 8]).
MatchesArrays(name, rec, f, p) ==
    /\ name = "read_optional_header" =>
          rec.cprmask = [k \in 1..4 |-> U32At(f, p + 36 + 4 * (k - 1))]
    /\ name = "read_section_header" =>
          rec.s_name = [k \in 1..8 |-> f[p + k]]

DecoderWidth(name) ==
    CASE name = "read_file_header" -> 20
      [] name = "read_optional_header" -> 56
      [] name = "read_section_header" -> 40
      [] name = "read_symbol_header" -> 96

DecoderLayout(name) ==
    CASE name = "read_file_header" -> FileHeaderLayout
      [] name = "read_optional_header" -> OptionalHeaderLayout
      [] name = "read_section_header" -> SectionHeaderLayout
      [] name = "read_symbol_header" -> SymbolHeaderLayout

\* C10: a header decoder started at position p with at least W bytes left
\* (W = 20, 56, 40, 96 for the file, optional, section and symbolic header)
\* succeeds, leaves the stream at p + W and returns a record whose fields are
\* the big-endian values of their bytes, in declaration order; started with
\* fewer than W bytes left it returns an error and no record.
C10_DecoderConsumesFixedWidth ==
    res # <<>> =>
        LET d == res[1]
            W == DecoderWidth(d.decoder)
        IN  IF d.at + W <= Len(file)
            THEN /\ d.ok
                 /\ pos = d.at + W
                 /\ Len(d.rec) = 1
                 /\ MatchesLayout(d.rec[1], DecoderLayout(d.decoder), file, d.at)
                 /\ MatchesArrays(d.decoder, d.rec[1], file, d.at)
            ELSE /\ ~d.ok
                 /\ d.rec = <<>>

\* A symbolic header decoded at a position other than 0 from a file with
\* bytes to spare.
C10_Witness ==
    /\ res # <<>>
    /\ res[1].decoder = "read_symbol_header"
    /\ res[1].ok
    /\ res[1].at > 0
    /\ pos < Len(file)

(***************************************************************************)
(* Properties of main().                                                   *)
(***************************************************************************)
EventsOf(op) == SelectSeq(io, LAMBDA e : e.op = op)
EventsIn(stages) == SelectSeq(io, LAMBDA e : e.stage \in stages)
LastOf(q) == q[Len(q)]

\* The stream position left by the file header / optional header stage.
HeaderEnd == LastOf(EventsIn({"Start", "OptionalHeader"})).end

StageRank(s) ==
    CASE s = "Start" -> 1
      [] s = "OptionalHeader" -> 2
      [] s = "Sections" -> 3
      [] s = "SymbolTable" -> 4
      [] s = "LocalStrings" -> 5
      [] s = "ExternalStrings" -> 6
      [] s = "Done" -> 7
      [] s = "Error" -> 8

\* C1: every step of a run is taken by a stage that has neither finished nor
\* failed, and leads to the next stage in the order Start, OptionalHeader,
\* Sections, SymbolTable, LocalStrings, ExternalStrings, Done (only Sections
\* is left in place, by its loop) or to the error state; the step ends in
\* the error state exactly when its last read failed, main then returns Err,
\* and every read or seek of the step belongs to the stage that took it.
C1_StagesInOrderNoRetry ==
    [][ /\ pc \notin {"Done", "Error"}
        /\ \/ pc' = "Error"
           \/ StageRank(pc') = StageRank(pc) + 1
           \/ pc' = pc /\ pc = "Sections"
        /\ pc' = "Error" <=> (io' # io /\ ~LastOf(io').ok)
        /\ pc' = "Error" <=> ret' = "Err"
        /\ pc' = "Done" <=> ret' = "Ok"
        /\ Len(io') >= Len(io) /\ SubSeq(io', 1, Len(io)) = io
        /\ \A k \in (Len(io) + 1)..Len(io') : io'[k].stage = pc
        /\ \A k \in 1..Len(io) : io[k].ok
      ]_vars

\* A run that failed in the LocalStrings stage, after the earlier stages.
C1_Witness ==
    /\ pc = "Error"
    /\ LastOf(io).stage = "LocalStrings"
    /\ sections # <<>>

\* C2: the i-th section header is read at B + 40 * i, B being the position
\* right after the file header and the optional header.
C2_SectionHeadersContiguous ==
    LET hs == EventsOf("read_section_header")
    IN  \A i \in 1..Len(hs) : hs[i].at = HeaderEnd + 40 * (i - 1)

\* The tags of the records the reads of q produced.
RECURSIVE TagsOf(_)
TagsOf(q) ==
    IF q = <<>> THEN <<>>
    ELSE LET e == Head(q)
             tags == CASE ~e.ok -> <<>>
                       [] e.op = "seek" -> <<>>
                       [] e.op = "read_file_header" -> << "ECOFF File Header" >>
                       [] e.op = "read_optional_header" -> << "ECOFF Optional Header" >>
                       [] e.op = "read_section_header" -> << "s_name", "ECOFF Section Header" >>
                       [] e.op = "read_section_data" -> << "section data" >>
                       [] e.op = "read_symbol_header" -> << "SymbolHeader" >>
                       [] e.op = "read_strings" /\ e.stage = "LocalStrings" -> << "local strings" >>
                       [] e.op = "read_strings" /\ e.stage = "ExternalStrings" -> << "external strings" >>
         IN  tags \o TagsOf(Tail(q))

C4_OptionalHeaderSizeChecked ==
    (file_header # <<>> /\ file_header[1].f_opthdr > 0
        /\ pc \in {"Sections", "SymbolTable", "LocalStrings", "ExternalStrings", "Done"}) =>
        /\ file_header[1].f_opthdr = 56
        /\ HeaderEnd = 20 + file_header[1].f_opthdr

\* C5: once the OptionalHeader stage is over, the optional header was read
\* (at offset 20, once) iff f_opthdr > 0 and is present iff that read
\* succeeded; with f_opthdr = 0 no optional header was read, none is
\* present, the Sections stage starts at offset 20 and the first section
\* header, if one is read, is read at offset 20.
C5_OptionalHeaderIffDeclared ==
    (file_header # <<>> /\ pc \notin {"Start", "OptionalHeader"}) =>
        LET h == file_header[1]
            oe == EventsOf("read_optional_header")
            hs == EventsOf("read_section_header")
        IN  IF h.f_opthdr > 0
            THEN /\ Len(oe) = 1
                 /\ oe[1].at = 20
                 /\ oe[1].ok <=> optional_header # <<>>
                 /\ oe[1].ok => MatchesLayout(optional_header[1], OptionalHeaderLayout, file, 20)
            ELSE /\ Len(oe) = 0
                 /\ optional_header = <<>>
                 /\ HeaderEnd = 20
                 /\ Len(hs) > 0 => hs[1].at = 20
                 /\ (h.f_nscns > 0 /\ pc # "Sections") => Len(hs) > 0

\* A first section header decoded at offset 20 of a file without optional
\* header.
C5_Witness ==
    /\ file_header # <<>>
    /\ file_header[1].f_opthdr = 0
    /\ sections # <<>>
    /\ io[2].op = "read_section_header"

\* The data of a section header lies within the file.
InFile(h) == h.s_size <= Len(file) /\ h.s_scnptr <= Len(file) - h.s_size

C7_NoSectionsNoReads ==
    (file_header # <<>> /\ file_header[1].f_nscns = 0) =>
        /\ sections = <<>>
        /\ section_header = <<>>
        /\ EventsIn({"Sections"}) = <<>>
        /\ pc = "SymbolTable" =>
              /\ pos = HeaderEnd
              /\ pos = IF file_header[1].f_opthdr > 0 THEN 76 ELSE 20

\* The SymbolTable stage entered with no section, after an optional header.
C7_Witness ==
    /\ pc = "SymbolTable"
    /\ file_header[1].f_nscns = 0
    /\ optional_header # <<>>

\* C8: a string block of declared length 0 is read without error as the
\* empty block, whatever its declared offset is.
C8_EmptyStringBlock ==
    symbol_header # <<>> =>
        LET y == symbol_header[1]
            le == EventsIn({"LocalStrings"})
            ee == EventsIn({"ExternalStrings"})
        IN  /\ (y.iss_max = 0 /\ le # <<>>) =>
                  /\ \A k \in 1..Len(le) : le[k].ok
                  /\ local_strings = << <<>> >>
                  /\ pc = "Error" => ee # <<>>
            /\ (y.iss_ext_max = 0 /\ ee # <<>>) =>
                  /\ \A k \in 1..Len(ee) : ee[k].ok
                  /\ external_strings = << <<>> >>
                  /\ pc = "Done"

\* Both blocks of length 0 at offsets past the end of the file, extracted.
C8_Witness ==
    /\ pc = "Done"
    /\ symbol_header[1].iss_max = 0
    /\ symbol_header[1].cb_ss_offset > Len(file)
    /\ symbol_header[1].iss_ext_max = 0
    /\ symbol_header[1].cb_ss_ext_offset > Len(file)
    /\ local_strings = << <<>> >>
    /\ external_strings = << <<>> >>

\* The read of block `stage` was made at off, right after a seek to off,
\* and returned the len bytes of the file that follow off.
BlockReadAt(stage, block, off, len) ==
    LET q == EventsIn({stage})
    IN  /\ Len(q) = 2
        /\ q[1].op = "seek" /\ q[1].end = off
        /\ q[2].op = "read_strings" /\ q[2].at = off
        /\ q[2].ok =>
              /\ q[2].end = off + len
              /\ block = << [j \in 1..len |-> file[off + j]] >>

\* C9: the symbolic header is read at f_symptr, right after a seek to
\* f_symptr, and holds the values of the bytes there; the local string
\* block is read at cb_ss_offset and is the iss_max bytes there; the external
\* string block is read at cb_ss_ext_offset and is the iss_ext_max bytes there.
C9_AbsoluteSeeks ==
    LET q == EventsIn({"SymbolTable"})
    IN  /\ q # <<>> =>
              /\ Len(q) = 2
              /\ q[1].op = "seek" /\ q[1].end = file_header[1].f_symptr
              /\ q[2].op = "read_symbol_header" /\ q[2].at = file_header[1].f_symptr
              /\ q[2].ok <=> symbol_header # <<>>
        /\ symbol_header # <<>> =>
              /\ MatchesLayout(symbol_header[1], SymbolHeaderLayout, file,
                               file_header[1].f_symptr)
              /\ EventsIn({"LocalStrings"}) # <<>> =>
                    BlockReadAt("LocalStrings", local_strings,
                                symbol_header[1].cb_ss_offset, symbol_header[1].iss_max)
              /\ EventsIn({"ExternalStrings"}) # <<>> =>
                    BlockReadAt("ExternalStrings", external_strings,
                                symbol_header[1].cb_ss_ext_offset,
                                symbol_header[1].iss_ext_max)

\* A complete run with two non-empty string blocks whose seek to the
\* symbolic header moved the position the sections had left.
C9_Witness ==
    /\ pc = "Done"
    /\ sections # <<>>
    /\ EventsIn({"SymbolTable"})[1].at # EventsIn({"SymbolTable"})[1].end
    /\ Len(local_strings[1]) > 0
    /\ Len(external_strings[1]) > 0

====
